---- MODULE Spec2Model ----
(***************************************************************************)
(* Model of the PiZero JukeBox supervisor (src/jukebox.py, src/main.py):   *)
(* JukeBox.__init__ (startup), JukeBox.run (main loop, link-loss recovery, *)
(* button polling), Audio.set_volume, Player, Bluetooth.connect, together  *)
(* with the environment the loop observes: the Bluetooth link, the GPIO    *)
(* pin levels and the media backend's end-of-track event thread.          *)
(***************************************************************************)
EXTENDS Integers, Sequences, FiniteSets, TLC

\* ------------------------------------------------------------------ bounds
MaxDrops == 1        \* link drops the environment may cause in one run
MaxPresses == 2      \* button press edges the environment may cause in one run
MaxTicks == 60       \* loop ticks of a run whose ticks are counted

\* ------------------------------------------------------- program constants
VOLUME_STEP == 5
HEALTH_PERIOD == 20
MIXER_MIN == 0
MIXER_MAX == 100
PIN_HANDLERS == <<"play", "volume_up", "volume_down">>
NumPins == Len(PIN_HANDLERS)

\* start volumes given on the command line (argparse, type=int)
StartVolumes == {0, 98}
\* numbers of playable files under songs_dir (0 = empty library)
LibrarySizes == {0, 2}
\* per-channel volumes of the mixer device before the program touches it
DeviceVolumes == {<<0, 0>>, <<30, 60>>}

\* ------------------------------------------------- strings and arithmetic
DigitChars == <<"0", "1", "2", "3", "4", "5", "6", "7", "8", "9">>
SignChars == {"+", "-"}

DigitVal(c) == (CHOOSE i \in 1..10 : DigitChars[i] = c) - 1

IsDigits(s) == Len(s) > 0 /\ \A i \in 1..Len(s) : \E j \in 1..10 : DigitChars[j] = s[i]

RECURSIVE IntToStr(_)
\* str(n) of a non-negative integer, as an f-string formats it
IntToStr(n) == IF n < 10 THEN <<DigitChars[n + 1]>>
               ELSE IntToStr(n \div 10) \o <<DigitChars[(n % 10) + 1]>>

RECURSIVE ParseDigits(_)
ParseDigits(s) == IF Len(s) = 0 THEN 0
                  ELSE 10 * ParseDigits(SubSeq(s, 1, Len(s) - 1)) + DigitVal(s[Len(s)])

\* a decimal literal python accepts: digits, no leading zero unless all zeros
IsPyLiteral(s) == /\ IsDigits(s)
                  /\ (s[1] = "0" => \A i \in 1..Len(s) : s[i] = "0")

RelText(sign, k) == <<sign>> \o IntToStr(k)

IntArg(n) == [type |-> "int", val |-> n, text |-> <<>>]
StrArg(s) == [type |-> "str", val |-> 0, text |-> s]

Max2(a, b) == IF a >= b THEN a ELSE b
MaxOf(ch) == Max2(ch[1], ch[2])
Clamp(v) == IF v > MIXER_MAX THEN MIXER_MAX ELSE IF v < MIXER_MIN THEN MIXER_MIN ELSE v

\* mutant of EvalRel: the operator is ignored, the delta is always added
EvalRelAlwaysAdd(cur, op, new) ==
    IF IsPyLiteral(new) THEN [ok |-> TRUE, val |-> cur + ParseDigits(new)]
    ELSE [ok |-> FALSE, val |-> 0]

\* eval(f'{current_volume}{operator}{new_volume}'): [ok, val]
EvalRel(cur, op, new) ==
    LET expr == IntToStr(cur) \o <<op>> \o new
        at == CHOOSE i \in 1..Len(expr) :
                 /\ expr[i] \in SignChars
                 /\ \A j \in 1..(i - 1) : expr[j] \notin SignChars
        lhs == SubSeq(expr, 1, at - 1)
        rhs == SubSeq(expr, at + 1, Len(expr))
    IN  IF IsPyLiteral(lhs) /\ IsPyLiteral(rhs)
        THEN [ok |-> TRUE,
              val |-> IF expr[at] = "+" THEN ParseDigits(lhs) + ParseDigits(rhs)
                      ELSE ParseDigits(lhs) - ParseDigits(rhs)]
        ELSE [ok |-> FALSE, val |-> 0]

\* The value Audio.set_volume hands to mixer.setvolume for argument arg when
\* the mixer's per-channel volumes are ch: [ok, val]
VolumeToWrite(arg, ch) ==
    IF arg.type = "str"
    THEN IF arg.text[1] \in SignChars
         THEN EvalRel(MaxOf(ch), arg.text[1], SubSeq(arg.text, 2, Len(arg.text)))
         ELSE IF IsDigits(arg.text)
              THEN [ok |-> TRUE, val |-> ParseDigits(arg.text)]
              ELSE [ok |-> FALSE, val |-> 0]
    ELSE [ok |-> TRUE, val |-> arg.val]

\* alsaaudio Mixer.setvolume accepts 0..100 and raises ALSAAudioError otherwise
MixerAccepts(v) == v >= MIXER_MIN /\ v <= MIXER_MAX

\* Audio.set_volume: the new channel volumes, the value written, whether it raised
SetVolume(arg, ch) ==
    LET w == VolumeToWrite(arg, ch)
    IN  IF ~w.ok THEN [raised |-> TRUE, wrote |-> {}, channels |-> ch]
        ELSE IF MixerAccepts(w.val)
             THEN [raised |-> FALSE, wrote |-> {w.val}, channels |-> <<w.val, w.val>>]
             ELSE [raised |-> TRUE, wrote |-> {w.val}, channels |-> ch]

\* ------------------------------------------------------------------- state
VARIABLES
    start_volume,   \* JukeBox.start_volume (command line)
    macaddr,        \* "ok" | "bad": whether the bus resolves a device for the address
    songs,          \* number of playable files under songs_dir
    pc,             \* the supervisor thread's position
    phase,          \* "startup" (__init__) | "loop" (run) | "recovery" (run, link lost)
    ret,            \* where play_next returns to: "attach" | "poll"
    exited,         \* "running" | "exit0" (run returned) | "error" (an exception left
                    \* the program) | "interrupt" (KeyboardInterrupt left JukeBox())
    connected,      \* Bluetooth.connected: the live link state
    muted,          \* the mixer's mute switch
    channels,       \* the mixer's per-channel volumes
    written,        \* the value of the last mixer.setvolume call ({} before the first)
    instances,      \* backend sessions (vlc instance + media player) created, none released
    attached,       \* sessions whose event manager holds song_finished_callback
    curSession,     \* the session Player.instance/player/events refer to (0 = none)
    pstate,         \* the current media player's state
    finished,       \* Player.finished (the end-of-track flag)
    counter,        \* run's counter
    curPin,         \* position of the for loop over zip(pins, PIN_HANDLERS)
    pins,           \* the level of each pin: gpio.input(pin)
    pinSetup,       \* how often gpio.setup ran for the configured pins
    gpioCleanups,   \* how often gpio.cleanup ran
    \* observers (history of the run; the program does not read them)
    drops,          \* link drops so far
    edges,          \* per pin: press edges (low-to-high transitions) so far
    handled,        \* per pin: handler invocations so far
    awaitLow,       \* the pin whose handler ran and that was not sampled low since (0 = none)
    holdPolled,     \* the hold loop read the pin high since the last dispatch
    lastRel,        \* the last set_volume if it was relative: max before, sign, delta, value written
    recLog,         \* collaborator calls of the startup (until run is entered) or of the
                    \* last recovery (from the health check that saw the link down until
                    \* the next tick)
    dropState,      \* "none" | "down" | "returned" (link back, no fresh track played yet)
    checksSinceReturn, \* health checks since the link returned (saturating at 3)
    observedDrop,   \* a health check saw the link down and no fresh track was played since
    attemptFailed,  \* Bluetooth.connect logged a failed attempt in the current startup
                    \* or recovery pass
    endSignalled,   \* the backend signalled end of the current track; no load+play since
    ticksSinceEnd,  \* loop ticks since that signal (saturating)
    tickNo,         \* loop ticks (time.sleep(0.1) of run) so far; -1: not counted
    checkTicks      \* the ticks on which the health check read bluetooth.connected

cfgVars == <<start_volume, macaddr, songs>>
ctlVars == <<pc, phase, ret, exited>>
mixerVars == <<muted, channels, written>>
playerVars == <<instances, attached, curSession, pstate, finished>>
loopVars == <<counter, curPin>>
gpioVars == <<pins, pinSetup, gpioCleanups>>
pressObs == <<edges, handled, awaitLow, holdPolled>>
linkObs == <<drops, dropState, checksSinceReturn, observedDrop, attemptFailed>>
endObs == <<endSignalled, ticksSinceEnd>>
tickObs == <<tickNo, checkTicks>>
vars == <<cfgVars, ctlVars, connected, mixerVars, playerVars, loopVars, gpioVars,
          pressObs, linkObs, endObs, tickObs, lastRel, recLog>>

NoRel == [has |-> FALSE, m |-> 0, sign |-> "+", k |-> 0, wrote |-> 0]
PinIds == 1..NumPins
TotalEdges == edges[1] + edges[2] + edges[3]
Sat(n, cap) == IF n < cap THEN n + 1 ELSE n

\* the state when main.py calls JukeBox(): nothing is constructed yet
InitProgram ==
    /\ start_volume \in StartVolumes
    /\ macaddr \in {"ok", "bad"}
    /\ songs \in LibrarySizes
    /\ pc = "bt_init" /\ phase = "startup" /\ ret = "attach" /\ exited = "running"
    /\ connected \in BOOLEAN
    /\ muted \in BOOLEAN
    /\ channels \in DeviceVolumes
    /\ written = {}
    /\ instances = {} /\ attached = {} /\ curSession = 0
    /\ pstate = "None" /\ finished = FALSE
    /\ counter = 0 /\ curPin = 1
    /\ pins = [p \in PinIds |-> FALSE]
    /\ pinSetup = 0 /\ gpioCleanups = 0
    /\ drops = 0
    /\ edges = [p \in PinIds |-> 0]
    /\ handled = [p \in PinIds |-> 0]
    /\ awaitLow = 0 /\ holdPolled = FALSE
    /\ lastRel = NoRel
    /\ recLog = <<>>
    /\ dropState = "none" /\ checksSinceReturn = 0 /\ observedDrop = FALSE
    /\ attemptFailed = FALSE
    /\ endSignalled = FALSE /\ ticksSinceEnd = 0

Init == InitProgram /\ tickNo = -1 /\ checkTicks = {}

\* --------------------------------------------------------------- helpers
\* an exception leaves the program: run's finally clause runs gpio.cleanup,
\* JukeBox() in main.py is outside any try
Raise ==
    /\ pc' = "done"
    /\ exited' = "error"
    /\ gpioCleanups' = IF phase = "startup" THEN gpioCleanups ELSE gpioCleanups + 1
    /\ UNCHANGED <<phase, ret, pins, pinSetup>>

\* the locals of run are gone once the process has exited
Exit == counter' = 0 /\ curPin' = 1

Goto(label) ==
    /\ pc' = label
    /\ UNCHANGED <<phase, ret, exited, gpioVars>>

Log(op) == recLog' = IF phase \in {"startup", "recovery"} THEN Append(recLog, op)
                     ELSE recLog

\* the for loop of run moves to the next pin, or the while loop to its next pass
NextPin ==
    /\ IF curPin < NumPins
       THEN curPin' = curPin + 1 /\ pc' = "poll"
       ELSE curPin' = 1 /\ pc' = "tick"
    /\ UNCHANGED <<phase, ret, exited, gpioVars, counter>>

SampledLow(p) == IF awaitLow = p THEN 0 ELSE awaitLow

\* ----------------------------------------- startup and recovery (shared)
\* mutant of BtInitialize: _get_device swallows the bus error and startup goes on
BtInitializeIgnoreError ==
    /\ pc = "bt_init" /\ exited = "running"
    /\ Goto("bt_connect") /\ Log("resolve")
    /\ UNCHANGED <<cfgVars, tickObs, connected, mixerVars, playerVars, loopVars,
                   pressObs, linkObs, endObs, lastRel>>

\* Bluetooth.initialize: _get_device resolves the device, or the bus raises
BtInitialize ==
    /\ pc = "bt_init" /\ exited = "running"
    /\ IF macaddr = "bad"
       THEN Raise /\ UNCHANGED recLog
       ELSE Goto("bt_connect") /\ Log("resolve")
    /\ UNCHANGED <<cfgVars, tickObs, connected, mixerVars, playerVars, loopVars,
                   pressObs, linkObs, endObs, lastRel>>

\* mutant of ConnectRetry: the failed attempt's exception is not caught
ConnectRetryPropagates ==
    /\ pc = "bt_connect" /\ exited = "running"
    /\ ~connected
    /\ Raise /\ Exit
    /\ attemptFailed' = TRUE
    /\ UNCHANGED <<cfgVars, tickObs, connected, mixerVars, playerVars, pressObs, drops,
                   dropState, checksSinceReturn, observedDrop, endObs, lastRel, recLog>>

\* Bluetooth.connect, one pass of the while loop: the attempt device.connect()
\* fails and is logged, sleep 3 s; the link may have come up when the loop
\* condition reads bluetooth.connected again
ConnectRetry ==
    /\ pc = "bt_connect" /\ exited = "running"
    /\ ~connected
    /\ \E ok \in BOOLEAN :
          /\ connected' = ok
          /\ dropState' = IF ok /\ dropState = "down" THEN "returned" ELSE dropState
    /\ checksSinceReturn' = 0
    /\ attemptFailed' = TRUE
    /\ UNCHANGED <<cfgVars, tickObs, ctlVars, mixerVars, playerVars, loopVars, gpioVars,
                   pressObs, drops, observedDrop, endObs, lastRel, recLog>>

\* mutant of ConnectDone: the mixer is not set up again (_setup_sound left out)
ConnectDoneSkipSound ==
    /\ pc = "bt_connect" /\ exited = "running"
    /\ connected
    /\ Goto("player_init") /\ Log("connected")
    /\ UNCHANGED <<cfgVars, tickObs, connected, mixerVars, playerVars, loopVars,
                   pressObs, linkObs, endObs, lastRel>>

\* Bluetooth.connect: the while condition reads connected as true
ConnectDone ==
    /\ pc = "bt_connect" /\ exited = "running"
    /\ connected
    /\ Goto("mixer_init") /\ Log("connected")
    /\ UNCHANGED <<cfgVars, tickObs, connected, mixerVars, playerVars, loopVars,
                   pressObs, linkObs, endObs, lastRel>>

\* Audio.initialize: _get_mixer opens the mixer, or logs the error and sleeps 3 s
MixerInitialize ==
    /\ pc = "mixer_init" /\ exited = "running"
    /\ \E ok \in BOOLEAN :
          IF ok THEN Goto("unmute") /\ Log("mixer_open")
          ELSE UNCHANGED <<ctlVars, gpioVars, recLog>>
    /\ UNCHANGED <<cfgVars, tickObs, connected, mixerVars, playerVars, loopVars,
                   pressObs, linkObs, endObs, lastRel>>

Unmute ==
    /\ pc = "unmute" /\ exited = "running"
    /\ muted' = FALSE
    /\ Goto("set_volume") /\ Log("unmute")
    /\ UNCHANGED <<cfgVars, tickObs, connected, channels, written, playerVars, loopVars,
                   pressObs, linkObs, endObs, lastRel>>

\* mutant of SetStartVolume: a recovery ends after _setup_sound (_setup_player
\* left out of run)
SetStartVolumeNoPlayer ==
    /\ pc = "set_volume" /\ exited = "running"
    /\ LET r == SetVolume(IntArg(start_volume), channels)
       IN  /\ channels' = r.channels
           /\ written' = IF r.wrote = {} THEN written ELSE r.wrote
           /\ IF r.raised THEN Raise
              ELSE /\ pc' = IF phase = "recovery" THEN "check_finished" ELSE "player_init"
                   /\ phase' = IF phase = "recovery" THEN "loop" ELSE phase
                   /\ UNCHANGED <<ret, exited, gpioVars>>
    /\ Log("set_volume")
    /\ lastRel' = NoRel
    /\ UNCHANGED <<cfgVars, tickObs, connected, muted, playerVars, loopVars,
                   pressObs, linkObs, endObs>>

\* _setup_sound: self.audio.set_volume(self.start_volume)
SetStartVolume ==
    /\ pc = "set_volume" /\ exited = "running"
    /\ LET r == SetVolume(IntArg(start_volume), channels)
       IN  /\ channels' = r.channels
           /\ written' = IF r.wrote = {} THEN written ELSE r.wrote
           /\ IF r.raised THEN Raise ELSE Goto("player_init")
    /\ Log("set_volume")
    /\ lastRel' = NoRel
    /\ UNCHANGED <<cfgVars, tickObs, connected, muted, playerVars, loopVars,
                   pressObs, linkObs, endObs>>

\* Player.initialize: a new vlc instance, media player and event manager take
\* the place of the old references; nothing releases the old ones
PlayerInitialize ==
    /\ pc = "player_init" /\ exited = "running"
    /\ LET new == Cardinality(instances) + 1
       IN  /\ instances' = instances \cup {new}
           /\ curSession' = new
    /\ pstate' = "Idle"
    /\ finished' = FALSE
    /\ pc' = "load" /\ ret' = "attach"
    /\ Log("player_init")
    /\ UNCHANGED <<cfgVars, tickObs, phase, exited, gpioVars, connected, mixerVars, attached,
                   loopVars, pressObs, linkObs, endObs, lastRel>>

\* play_next: get_song (random.choice raises on an empty list), load_file
LoadNext ==
    /\ pc = "load" /\ exited = "running"
    /\ IF songs = 0
       THEN Raise /\ UNCHANGED <<pstate, recLog>>
       ELSE pstate' = "Loaded" /\ Goto("play") /\ Log("load")
    /\ UNCHANGED <<cfgVars, tickObs, connected, mixerVars, instances, attached, curSession,
                   finished, loopVars, pressObs, linkObs, endObs, lastRel>>

\* mutant of Play: play_next loads the file and does not call play()
PlayNotStarted ==
    /\ pc = "play" /\ exited = "running"
    /\ pstate' = pstate
    /\ Goto("clear") /\ Log("play")
    /\ dropState' = IF dropState = "returned" THEN "none" ELSE dropState
    /\ checksSinceReturn' = 0
    /\ observedDrop' = FALSE
    /\ endSignalled' = FALSE /\ ticksSinceEnd' = 0
    /\ UNCHANGED <<cfgVars, tickObs, connected, mixerVars, instances, attached, curSession,
                   finished, loopVars, pressObs, drops, attemptFailed, lastRel>>

\* play_next: self.player.play()
Play ==
    /\ pc = "play" /\ exited = "running"
    /\ pstate' = "Playing"
    /\ Goto("clear") /\ Log("play")
    /\ dropState' = IF dropState = "returned" THEN "none" ELSE dropState
    /\ checksSinceReturn' = 0
    /\ observedDrop' = FALSE
    /\ endSignalled' = FALSE /\ ticksSinceEnd' = 0
    /\ UNCHANGED <<cfgVars, tickObs, connected, mixerVars, instances, attached, curSession,
                   finished, loopVars, pressObs, drops, attemptFailed, lastRel>>

\* play_next: self.player.finished = False
ClearFinished ==
    /\ pc = "clear" /\ exited = "running"
    /\ finished' = FALSE
    /\ Goto(ret)
    /\ UNCHANGED <<cfgVars, tickObs, connected, mixerVars, instances, attached, curSession,
                   pstate, loopVars, pressObs, linkObs, endObs, lastRel, recLog>>

\* mutant of EventAttach: a recovery goes on to _setup_gpio as startup does
EventAttachThenGpio ==
    /\ pc = "attach" /\ exited = "running"
    /\ attached' = attached \cup {curSession}
    /\ pc' = "gpio_setup"
    /\ phase' = phase
    /\ UNCHANGED <<cfgVars, tickObs, ret, exited, gpioVars, connected, mixerVars, instances,
                   curSession, pstate, finished, loopVars, pressObs, linkObs, endObs,
                   lastRel, recLog>>

\* _setup_player: events.event_attach(MediaPlayerEndReached, song_finished_callback);
\* in run, the recovery is over and the loop goes on with counter += 1
EventAttach ==
    /\ pc = "attach" /\ exited = "running"
    /\ attached' = attached \cup {curSession}
    /\ pc' = IF phase = "startup" THEN "gpio_setup" ELSE "check_finished"
    /\ phase' = IF phase = "recovery" THEN "loop" ELSE phase
    /\ UNCHANGED <<cfgVars, tickObs, ret, exited, gpioVars, connected, mixerVars, instances,
                   curSession, pstate, finished, loopVars, pressObs, linkObs, endObs,
                   lastRel, recLog>>

\* _setup_gpio, then main.py calls run: counter = 0
SetupGpio ==
    /\ pc = "gpio_setup" /\ exited = "running"
    /\ pinSetup' = pinSetup + 1
    /\ pc' = "tick" /\ phase' = "loop"
    /\ counter' = 0 /\ curPin' = 1
    /\ recLog' = <<>> /\ attemptFailed' = FALSE
    /\ UNCHANGED <<cfgVars, tickObs, ret, exited, pins, gpioCleanups, connected,
                   mixerVars, playerVars, pressObs, drops, dropState, checksSinceReturn,
                   observedDrop, endObs, lastRel>>

\* mutant of Tick: the health check resets counter to 0 instead of 1
TickResetZero ==
    /\ pc = "tick" /\ exited = "running"
    /\ tickNo < MaxTicks
    /\ tickNo' = IF tickNo < 0 THEN tickNo ELSE tickNo + 1
    /\ checkTicks' = IF tickNo >= 0 /\ counter % HEALTH_PERIOD = 0
                     THEN checkTicks \cup {tickNo + 1} ELSE checkTicks
    /\ checksSinceReturn' = IF dropState = "returned" /\ counter % HEALTH_PERIOD = 0
                            THEN Sat(checksSinceReturn, 3)
                            ELSE checksSinceReturn
    /\ ticksSinceEnd' = IF endSignalled THEN Sat(ticksSinceEnd, 2) ELSE ticksSinceEnd
    /\ IF counter % HEALTH_PERIOD = 0
       THEN /\ counter' = 0
            /\ IF ~connected
               THEN /\ pc' = "stop" /\ phase' = "recovery"
                    /\ observedDrop' = TRUE
               ELSE /\ pc' = "check_finished"
                    /\ UNCHANGED <<phase, observedDrop>>
       ELSE /\ pc' = "check_finished"
            /\ UNCHANGED <<counter, phase, observedDrop>>
    /\ recLog' = <<>> /\ attemptFailed' = FALSE
    /\ UNCHANGED <<cfgVars, ret, exited, gpioVars, connected, mixerVars, playerVars,
                   curPin, pressObs, drops, dropState, endSignalled, lastRel>>

\* ------------------------------------------------------------ the main loop
\* run: time.sleep(0.1); if counter % 20 == 0: counter = 1, and the health check
\* reads bluetooth.connected
Tick ==
    /\ pc = "tick" /\ exited = "running"
    /\ tickNo < MaxTicks
    /\ tickNo' = IF tickNo < 0 THEN tickNo ELSE tickNo + 1
    /\ checkTicks' = IF tickNo >= 0 /\ counter % HEALTH_PERIOD = 0
                     THEN checkTicks \cup {tickNo + 1} ELSE checkTicks
    /\ checksSinceReturn' = IF dropState = "returned" /\ counter % HEALTH_PERIOD = 0
                            THEN Sat(checksSinceReturn, 3)
                            ELSE checksSinceReturn
    /\ ticksSinceEnd' = IF endSignalled THEN Sat(ticksSinceEnd, 2) ELSE ticksSinceEnd
    /\ IF counter % HEALTH_PERIOD = 0
       THEN /\ counter' = 1
            /\ IF ~connected
               THEN /\ pc' = "stop" /\ phase' = "recovery"
                    /\ observedDrop' = TRUE
               ELSE /\ pc' = "check_finished"
                    /\ UNCHANGED <<phase, observedDrop>>
       ELSE /\ pc' = "check_finished"
            /\ UNCHANGED <<counter, phase, observedDrop>>
    /\ recLog' = <<>> /\ attemptFailed' = FALSE
    /\ UNCHANGED <<cfgVars, ret, exited, gpioVars, connected, mixerVars, playerVars,
                   curPin, pressObs, drops, dropState, endSignalled, lastRel>>

\* run, link lost: self.player.stop()
PlayerStop ==
    /\ pc = "stop" /\ exited = "running"
    /\ pstate' = "Stopped"
    /\ Goto("bt_init") /\ Log("stop")
    /\ UNCHANGED <<cfgVars, tickObs, connected, mixerVars, instances, attached, curSession,
                   finished, loopVars, pressObs, linkObs, endObs, lastRel>>

\* run: counter += 1; if self.player.finished: self.play_next()
CheckFinished ==
    /\ pc = "check_finished" /\ exited = "running"
    /\ counter' = counter + 1
    /\ curPin' = 1
    /\ IF finished
       THEN pc' = "load" /\ ret' = "poll"
       ELSE pc' = "poll" /\ ret' = ret
    /\ UNCHANGED <<cfgVars, tickObs, phase, exited, gpioVars, connected, mixerVars, playerVars,
                   pressObs, linkObs, endObs, lastRel, recLog>>

\* run: gpio.input(pin) reads low, the pin is skipped
PollLow ==
    /\ pc = "poll" /\ exited = "running"
    /\ ~pins[curPin]
    /\ awaitLow' = SampledLow(curPin)
    /\ NextPin
    /\ UNCHANGED <<cfgVars, tickObs, connected, mixerVars, playerVars, edges, handled,
                   holdPolled, linkObs, endObs, lastRel, recLog>>

\* mutant of Dispatched: the handler runs whatever level the pin reads
DispatchedAnyLevel(name) ==
    /\ pc = "poll" /\ exited = "running"
    /\ PIN_HANDLERS[curPin] = name
    /\ handled' = [handled EXCEPT ![curPin] = @ + 1]
    /\ awaitLow' = curPin
    /\ holdPolled' = FALSE
    /\ UNCHANGED <<cfgVars, tickObs, connected, edges, linkObs, endObs, recLog>>

\* what the handlers share: the pin read high, getattr(self, f'{handler}_handler')()
Dispatched(name) ==
    /\ pc = "poll" /\ exited = "running"
    /\ pins[curPin]
    /\ PIN_HANDLERS[curPin] = name
    /\ handled' = [handled EXCEPT ![curPin] = @ + 1]
    /\ awaitLow' = curPin
    /\ holdPolled' = FALSE
    /\ UNCHANGED <<cfgVars, tickObs, connected, edges, linkObs, endObs, recLog>>

\* libvlc's pause toggles a playing or paused player and is ignored otherwise
PauseToggle(st) == IF st = "Playing" THEN "Paused"
                   ELSE IF st = "Paused" THEN "Playing" ELSE st

\* play_handler: self.player.pause()
PlayHandler ==
    /\ Dispatched("play")
    /\ pstate' = PauseToggle(pstate)
    /\ Goto("hold")
    /\ UNCHANGED <<mixerVars, instances, attached, curSession, finished, lastRel,
                   loopVars>>

\* a volume handler: self.audio.set_volume(f'{sign}{Consts.VOLUME_STEP}')
VolumeHandler(sign) ==
    LET r == SetVolume(StrArg(RelText(sign, VOLUME_STEP)), channels)
    IN  /\ channels' = r.channels
        /\ written' = IF r.wrote = {} THEN written ELSE r.wrote
        /\ lastRel' = IF r.wrote = {} THEN lastRel
                      ELSE [has |-> TRUE, m |-> MaxOf(channels), sign |-> sign,
                            k |-> VOLUME_STEP, wrote |-> CHOOSE v \in r.wrote : TRUE]
        /\ IF r.raised THEN Raise /\ Exit ELSE Goto("hold") /\ UNCHANGED loopVars
        /\ UNCHANGED <<muted, playerVars>>

VolumeUpHandler == Dispatched("volume_up") /\ VolumeHandler("+")

VolumeDownHandler == Dispatched("volume_down") /\ VolumeHandler("-")

\* mutant of HoldPoll: an if in place of the while, one sleep and on to the next pin
HoldPollOnce ==
    /\ pc = "hold" /\ exited = "running"
    /\ pins[curPin]
    /\ holdPolled' = TRUE
    /\ NextPin
    /\ UNCHANGED <<cfgVars, tickObs, connected, mixerVars, playerVars, edges, handled,
                   awaitLow, linkObs, endObs, lastRel, recLog>>

\* run: while gpio.input(pin): time.sleep(0.3)
HoldPoll ==
    /\ pc = "hold" /\ exited = "running"
    /\ pins[curPin]
    /\ holdPolled' = TRUE
    /\ UNCHANGED <<cfgVars, tickObs, ctlVars, connected, mixerVars, playerVars, loopVars,
                   gpioVars, edges, handled, awaitLow, linkObs, endObs, lastRel, recLog>>

\* run: the hold loop reads the pin low and ends
HoldRelease ==
    /\ pc = "hold" /\ exited = "running"
    /\ ~pins[curPin]
    /\ awaitLow' = SampledLow(curPin)
    /\ NextPin
    /\ UNCHANGED <<cfgVars, tickObs, connected, mixerVars, playerVars, edges, handled,
                   holdPolled, linkObs, endObs, lastRel, recLog>>

\* KeyboardInterrupt: run logs and its finally clause runs gpio.cleanup;
\* during JukeBox() it leaves the program uncaught
Interrupt ==
    /\ exited = "running"
    /\ pc' = "done"
    /\ exited' = IF phase = "startup" THEN "interrupt" ELSE "exit0"
    /\ gpioCleanups' = IF phase = "startup" THEN gpioCleanups ELSE gpioCleanups + 1
    /\ Exit
    /\ UNCHANGED <<cfgVars, tickObs, phase, ret, pins, pinSetup, connected, mixerVars,
                   playerVars, pressObs, linkObs, endObs, lastRel, recLog>>

\* ---------------------------------------------------------- the environment
LinkDrop ==
    /\ exited = "running"
    /\ connected /\ drops < MaxDrops
    /\ connected' = FALSE
    /\ drops' = drops + 1
    /\ dropState' = "down"
    /\ checksSinceReturn' = 0
    /\ UNCHANGED <<cfgVars, tickObs, ctlVars, mixerVars, playerVars, loopVars, gpioVars,
                   pressObs, observedDrop, attemptFailed, endObs, lastRel, recLog>>

\* the link comes back without the program's doing (the device reconnects)
LinkReturn ==
    /\ exited = "running"
    /\ ~connected
    /\ connected' = TRUE
    /\ dropState' = IF dropState = "down" THEN "returned" ELSE dropState
    /\ checksSinceReturn' = 0
    /\ UNCHANGED <<cfgVars, tickObs, ctlVars, mixerVars, playerVars, loopVars, gpioVars,
                   pressObs, drops, observedDrop, attemptFailed, endObs, lastRel, recLog>>

\* a button is pressed; the pins are not configured before _setup_gpio, the
\* last step of startup
PinPress(p) ==
    /\ exited = "running"
    /\ phase # "startup"
    /\ ~pins[p] /\ TotalEdges < MaxPresses
    /\ pins' = [pins EXCEPT ![p] = TRUE]
    /\ edges' = [edges EXCEPT ![p] = @ + 1]
    /\ UNCHANGED <<cfgVars, tickObs, ctlVars, connected, mixerVars, playerVars, loopVars,
                   pinSetup, gpioCleanups, handled, awaitLow, holdPolled, linkObs,
                   endObs, lastRel, recLog>>

PinRelease(p) ==
    /\ exited = "running"
    /\ pins[p]
    /\ pins' = [pins EXCEPT ![p] = FALSE]
    /\ UNCHANGED <<cfgVars, tickObs, ctlVars, connected, mixerVars, playerVars, loopVars,
                   pinSetup, gpioCleanups, pressObs, linkObs, endObs, lastRel, recLog>>

\* the backend's event thread: the playing track reaches its end; the
\* callback, where attached, runs song_finished_callback
EndReached ==
    /\ exited = "running"
    /\ pstate = "Playing"
    /\ pstate' = "Ended"
    /\ finished' = IF curSession \in attached THEN TRUE ELSE finished
    /\ endSignalled' = IF phase # "startup" THEN TRUE ELSE endSignalled
    /\ ticksSinceEnd' = 0
    /\ UNCHANGED <<cfgVars, tickObs, ctlVars, connected, mixerVars, instances, attached,
                   curSession, loopVars, gpioVars, pressObs, linkObs, lastRel, recLog>>

Next ==
    \/ BtInitialize \/ ConnectRetry \/ ConnectDone \/ MixerInitialize \/ Unmute
    \/ SetStartVolume \/ PlayerInitialize \/ LoadNext \/ Play \/ ClearFinished
    \/ EventAttach \/ SetupGpio
    \/ Tick \/ PlayerStop \/ CheckFinished
    \/ PollLow \/ PlayHandler \/ VolumeUpHandler \/ VolumeDownHandler
    \/ HoldPoll \/ HoldRelease
    \/ Interrupt
    \/ LinkDrop \/ LinkReturn
    \/ \E p \in PinIds : PinPress(p)
    \/ \E p \in PinIds : PinRelease(p)
    \/ EndReached

Spec == Init /\ [][Next]_vars

\* the program with no button pressed: every gpio.input reads low
NextNoButtons ==
    \/ BtInitialize \/ ConnectRetry \/ ConnectDone \/ MixerInitialize \/ Unmute
    \/ SetStartVolume \/ PlayerInitialize \/ LoadNext \/ Play \/ ClearFinished
    \/ EventAttach \/ SetupGpio
    \/ Tick \/ PlayerStop \/ CheckFinished \/ PollLow
    \/ Interrupt
    \/ LinkDrop \/ LinkReturn
    \/ EndReached

\* the same, with the ticks of run counted up to MaxTicks
InitTicks == InitProgram /\ tickNo = 0 /\ checkTicks = {}

SpecTicks == InitTicks /\ [][NextNoButtons]_vars

\* the same, the supervisor thread being scheduled whenever connect's loop
\* condition reads true
SpecConnect == Init /\ [][NextNoButtons]_vars /\ WF_vars(ConnectDone)

\* ------------------------------------------------- the relative-volume law
\* set_volume("+k") followed by set_volume("-k") on a mixer whose channels
\* hold any volumes; lastRel keeps the first call, k is lastRel.k
LawVolumes == {0, 30, 60, 95, 100}
LawSteps == {0, 1, 5, 10, 100}

otherVars == <<cfgVars, tickObs, phase, ret, connected, muted, playerVars, loopVars, gpioVars,
               pressObs, linkObs, endObs, recLog>>

LawInit ==
    /\ start_volume = 0 /\ macaddr = "ok" /\ songs = 0
    /\ pc = "law_up" /\ phase = "loop" /\ ret = "attach" /\ exited = "running"
    /\ connected = TRUE /\ muted = FALSE
    /\ channels \in LawVolumes \X LawVolumes
    /\ written = {}
    /\ instances = {} /\ attached = {} /\ curSession = 0
    /\ pstate = "None" /\ finished = FALSE
    /\ counter = 0 /\ curPin = 1
    /\ pins = [p \in PinIds |-> FALSE]
    /\ pinSetup = 0 /\ gpioCleanups = 0
    /\ drops = 0
    /\ edges = [p \in PinIds |-> 0]
    /\ handled = [p \in PinIds |-> 0]
    /\ awaitLow = 0 /\ holdPolled = FALSE
    /\ \E k \in LawSteps : lastRel = [NoRel EXCEPT !.k = k]
    /\ recLog = <<>>
    /\ dropState = "none" /\ checksSinceReturn = 0 /\ observedDrop = FALSE
    /\ attemptFailed = FALSE
    /\ endSignalled = FALSE /\ ticksSinceEnd = 0
    /\ tickNo = -1 /\ checkTicks = {}

LawCall(sign, from, to) ==
    /\ pc = from
    /\ LET r == SetVolume(StrArg(RelText(sign, lastRel.k)), channels)
       IN  /\ channels' = r.channels
           /\ written' = IF r.wrote = {} THEN written ELSE r.wrote
           /\ pc' = IF r.raised THEN "done" ELSE to
           /\ exited' = IF r.raised THEN "error" ELSE exited
    /\ UNCHANGED otherVars

LawUp ==
    /\ LawCall("+", "law_up", "law_down")
    /\ lastRel' = [lastRel EXCEPT !.has = TRUE, !.m = MaxOf(channels)]

LawDown ==
    /\ LawCall("-", "law_down", "law_done")
    /\ UNCHANGED lastRel

LawNext == LawUp \/ LawDown

SpecVol == LawInit /\ [][LawNext]_vars

\* ------------------------------------------------------------------ claims
IsPrefix(s, t) == Len(s) <= Len(t) /\ \A i \in 1..Len(s) : s[i] = t[i]

\* C1: whenever the process has exited (shutdown, interrupt, or an error from
\* startup or the main loop), gpio.cleanup has run exactly once.
C1_CleanupOnceOnExit == exited # "running" => gpioCleanups = 1

\* C2: every value set_volume writes to the mixer lies in [0,100].
C2_WrittenInRange == \A v \in written : v >= MIXER_MIN /\ v <= MIXER_MAX

\* C3: a relative set_volume from maximum channel volume m writes min(100, m+k)
\* for +k and max(0, m-k) for -k.
C3_RelativeSaturates ==
    lastRel.has =>
        lastRel.wrote = Clamp(IF lastRel.sign = "+" THEN lastRel.m + lastRel.k
                              ELSE lastRel.m - lastRel.k)

\* C4: when neither call leaves [0,100] (neither raised), set_volume("+k")
\* followed by set_volume("-k") returns the maximum channel volume to its
\* value v before the two calls.
C4_UpDownRoundTrip == pc = "law_done" => MaxOf(channels) = lastRel.m

C4_Witness ==
    /\ pc = "law_done" /\ lastRel.k = 5 /\ lastRel.m = 60
    /\ written = {60}

\* C5: a handler is dispatched only when no pin is waiting to be sampled low
\* after its own dispatch: a held button fires its handler once.
C5_NoDispatchBeforeRelease == [][handled' # handled => awaitLow = 0]_vars

C5_Witness ==
    /\ pc = "hold" /\ awaitLow = curPin /\ holdPolled
    /\ handled[curPin] = 1
    /\ \E q \in PinIds : q # curPin /\ pins[q] /\ handled[q] = 0

\* C6 as stated: every press edge of a button gets its handler invocation
\* before the next press edge of that button; none goes without.
C6_EveryEdgeHandled ==
    \A p \in PinIds : handled[p] <= edges[p] /\ edges[p] <= handled[p] + 1

\* C6 as amended: a press edge gets at most one handler invocation (edges the
\* loop never samples high get none).
C6_AtMostOncePerEdge == \A p \in PinIds : handled[p] <= edges[p]

C6_Witness == \E p \in PinIds : edges[p] = 2 /\ handled[p] = 2 /\ pc = "hold"

\* C7: at most one playback session (backend instance, player, end-of-track
\* callback) exists in any state.
C7_OneSession == Cardinality(instances \cup attached) <= 1

\* C8: the calls of a link-loss recovery are, in order: player.stop, link
\* observed connected, mixer open, unmute, set_volume(start_volume), player
\* initialize, load, play; nothing else comes between them.
RecoverySequence == <<"stop", "connected", "mixer_open", "unmute", "set_volume",
                      "player_init", "load", "play">>
ClaimOps(log) == SelectSeq(log, LAMBDA e : e # "resolve")
C8_RecoveryOrder ==
    /\ phase = "recovery" => IsPrefix(ClaimOps(recLog), RecoverySequence)
    /\ phase = "recovery" /\ pc \notin {"stop", "done"} =>
           Len(recLog) > 0 /\ recLog[1] = "stop"
    /\ phase = "loop" /\ recLog # <<>> => ClaimOps(recLog) = RecoverySequence

C8_Witness == phase = "loop" /\ pc = "check_finished" /\ recLog # <<>>

\* C9 as stated: once the link has returned after a drop, a fresh track plays
\* within 20 ticks. Health checks are at least 19 ticks apart, so by the third
\* health check after the return more than 20 ticks have passed.
C9_RestartWithinPeriod == dropState = "returned" => checksSinceReturn < 3

\* C9 as amended: after a health check has seen the link down, the loop takes
\* no further tick before a fresh track has been played: the supervisor stays
\* in the recovery pass until then.
C9_RestartInRecoveryPass == observedDrop /\ exited = "running" => phase = "recovery"

C9_Witness ==
    /\ phase = "recovery" /\ pc = "clear"
    /\ drops = 1 /\ dropState = "none" /\ ~observedDrop

\* C10: after the backend signals the end of the current track while run is
\* looping, a new track is loaded and played by the end of the next loop
\* iteration (before the second tick after the signal).
C10_NextTrackWithinOneTick == endSignalled => ticksSinceEnd < 2

\* --------------------------------------------------------------------- C11
TicksUpTo(n) == 1..n

\* C11 as stated: the health check reads link.connected on tick 20 and on
\* every 20th tick after it (20, 40, 60, ...), and on no other tick.
C11_CheckOnEvery20th ==
    tickNo >= 0 =>
        checkTicks = {t \in TicksUpTo(tickNo) : t % HEALTH_PERIOD = 0}

\* C11: the health check reads link.connected on the first tick and then on
\* every 19th tick (ticks 1, 20, 39, 58, ...), and on no other tick, whether or
\* not a recovery took place in between.
C11_CheckOnFirstThenEvery19th ==
    tickNo >= 0 =>
        checkTicks = {t \in TicksUpTo(tickNo) : t % (HEALTH_PERIOD - 1) = 1}

\* the fourth health check, on tick 58, in a run that went through a recovery
C11_Witness ==
    /\ tickNo = 58 /\ 58 \in checkTicks
    /\ Cardinality(instances) = 2 /\ phase = "loop"

\* --------------------------------------------------------------------- C12
\* place of the first entry e in a log, 0 when it has none
Pos(log, e) ==
    IF \E i \in 1..Len(log) : log[i] = e
    THEN CHOOSE i \in 1..Len(log) : log[i] = e /\ \A j \in 1..(i - 1) : log[j] # e
    ELSE 0

\* C12: every playback session, at startup and in every recovery, is
\* constructed only after connect has observed the link connected in the same
\* pass, and the mixer is opened after that observation and before the session
\* is constructed.
C12_SessionAfterLinkAndMixer ==
    [][LET c  == Pos(recLog', "connected")
           mx == Pos(recLog', "mixer_open")
           pl == Pos(recLog', "player_init")
       IN  /\ instances' # instances =>
                 /\ phase \in {"startup", "recovery"}
                 /\ 0 < c /\ c < mx /\ mx < pl /\ pl = Len(recLog')
           /\ mx > 0 => 0 < c /\ c < mx
           /\ pl > 0 => 0 < mx /\ mx < pl]_vars

\* the second session has just been constructed by a recovery
C12_Witness ==
    /\ phase = "recovery" /\ pc = "load" /\ ret = "attach"
    /\ Cardinality(instances) = 2 /\ Pos(recLog, "player_init") = Len(recLog)

\* --------------------------------------------------------------------- C13
\* C13: Bluetooth.connect leaves its retry loop only by returning with the link
\* connected: a failed attempt is never propagated to the caller, it is retried
\* (only a user interrupt ends the program inside the loop); and if the link
\* eventually stays connected, the call is left for good.
C13_ConnectReturnsOnlyConnected ==
    /\ [][pc = "bt_connect" /\ pc' # "bt_connect" =>
             \/ connected /\ pc' = "mixer_init" /\ exited' = "running"
             \/ exited' \in {"exit0", "interrupt"}]_vars
    /\ [][pc = "bt_connect" /\ attemptFailed' /\ ~attemptFailed =>
             pc' = "bt_connect" /\ exited' = "running"]_vars
    /\ <>[]connected => <>[](pc # "bt_connect")

\* connect has returned in a recovery after at least one failed attempt
C13_Witness ==
    /\ phase = "recovery" /\ pc = "mixer_init" /\ exited = "running"
    /\ attemptFailed /\ connected

\* --------------------------------------------------------------------- C14
\* C14: once run is looping with a non-empty song library, the program ends
\* only by a user interrupt: no button press (volume presses at the range
\* limits included), link drop, failed connect attempt or mixer failure ends it.
C14_LoopEndsOnlyOnInterrupt ==
    phase # "startup" /\ songs > 0 /\ exited # "running" => exited = "exit0"

\* --------------------------------------------------------------------- C15
\* C15: when Bluetooth.initialize fails on a bad address, startup aborts at that
\* step: no connect, no mixer, no playback session, no GPIO pin configured, and
\* run is never entered.
C15_BadAddressAbortsStartup ==
    macaddr = "bad" =>
        /\ phase = "startup" /\ pc \in {"bt_init", "done"}
        /\ pc = "done" => exited \in {"error", "interrupt"}
        /\ recLog = <<>> /\ written = {} /\ ~attemptFailed
        /\ instances = {} /\ attached = {} /\ pstate = "None"
        /\ pinSetup = 0 /\ counter = 0 /\ gpioCleanups = 0

\* startup has been aborted by the error of Bluetooth.initialize
C15_Witness == macaddr = "bad" /\ pc = "done" /\ exited = "error"

\* --------------------------------------------------------------------- C16
\* C16: handlers are bound by position and touch only their own state: a press
\* on the first pin toggles the player between playing and paused and leaves
\* the mixer volume and the end flag as they are; a press on the second (third)
\* pin raises (lowers) the mixer volume by VOLUME_STEP and leaves the playback
\* state and the end flag as they are.
C16_HandlersTouchOwnState ==
    [][/\ handled'[1] # handled[1] =>
             /\ pstate = "Playing" => pstate' = "Paused"
             /\ pstate = "Paused" => pstate' = "Playing"
             /\ pstate \notin {"Playing", "Paused"} => pstate' = pstate
             /\ channels' = channels /\ muted' = muted /\ finished' = finished
       /\ handled'[2] # handled[2] =>
             /\ MaxOf(channels') = MaxOf(channels) + VOLUME_STEP
             /\ pstate' = pstate /\ finished' = finished
       /\ handled'[3] # handled[3] =>
             /\ MaxOf(channels') = MaxOf(channels) - VOLUME_STEP
             /\ pstate' = pstate /\ finished' = finished]_vars

\* --------------------------------------------------------------------- C17
\* C17: _setup_gpio configures the pins exactly once, at startup after the
\* first playback session has been started, and no recovery configures them
\* again.
C17_GpioSetupOnce ==
    /\ phase = "startup" => pinSetup = 0
    /\ phase # "startup" => pinSetup = 1 /\ 1 \in instances /\ 1 \in attached

\* a recovery has been completed and the pins are still set up once
C17_Witness ==
    /\ phase = "loop" /\ pc = "poll" /\ curSession = 2 /\ 2 \in attached
    /\ pinSetup = 1

\* --------------------------------------------------------------------- C18
\* C18: no end-of-track signal of the current session is lost: the current
\* track has never ended with the end flag false while the supervisor is
\* neither inside play_next nor inside a recovery.
C18_NoEndSignalLost ==
    pstate = "Ended" /\ ~finished /\ exited = "running" =>
        pc \in {"load", "play", "clear"} \/ phase = "recovery"

\* --------------------------------------------------------------------- C19
AllChannelsAt(ch, v) == \A i \in DOMAIN ch : ch[i] = v

\* C19 as stated: when a recovery completes, the mixer is unmuted at
\* start_volume, the player is playing a newly loaded track of a new session,
\* and the end flag is false.
C19_RecoveryRestoresStartupState ==
    [][phase = "recovery" /\ phase' = "loop" =>
          /\ ~muted' /\ AllChannelsAt(channels', start_volume)
          /\ curSession' = Cardinality(instances') /\ curSession' > 1
          /\ pstate' = "Playing"
          /\ ~finished']_vars

\* C19 as amended: when a recovery completes, the mixer is unmuted at
\* start_volume, the player has been started on a newly loaded track of a new
\* session (it is playing, or that track has already reached its end), and the
\* end flag is false.
C19_RecoveryRestartsPlayback ==
    [][phase = "recovery" /\ phase' = "loop" =>
          /\ ~muted' /\ AllChannelsAt(channels', start_volume)
          /\ curSession' = Cardinality(instances') /\ curSession' > 1
          /\ pstate' \in {"Playing", "Ended"}
          /\ Pos(recLog', "load") > 0 /\ Pos(recLog', "play") > Pos(recLog', "load")
          /\ ~finished']_vars

\* a recovery has just completed after a pause press and a volume-up press
C19_Witness ==
    /\ phase = "loop" /\ pc = "check_finished" /\ recLog # <<>>
    /\ handled[1] = 1 /\ handled[2] = 1
    /\ pstate = "Playing" /\ ~finished /\ ~muted
    /\ AllChannelsAt(channels, start_volume)

====
